---- MODULE Spec2Model ----
(***************************************************************************)
(* Model of the bucket queue (data_structures/bucket_queue/bucket_queue.py)*)
(* and of the greedy set cover built on it (set_cover_greedy.py).          *)
(*                                                                         *)
(* A queue is a record [L, C, A, lowest, greatest].  As in the source, A   *)
(* is a list of buckets indexed 0 .. C-L and the two cached bounds are     *)
(* array indices (priority - L), or None.                                  *)
(***************************************************************************)
EXTENDS Integers, Sequences, FiniteSets, TLC

\* Bounds of the queue specification.
MaxSpan == 2        \* C - L: the queue has MaxSpan + 1 buckets
NumIds == 2         \* element identifiers 1 .. NumIds
MaxInserts == 2     \* cap on the number of element-adding inserts in a run

\* Bounds of the set cover specification.
NumSets == 3        \* number of input sets, indexed 0 .. NumSets-1
MaxElem == 2        \* element identifiers 1 .. MaxElem

\* the default of the constructor's parameter L
DefaultL == 1

\* Python's None.  Bucket indices, element identifiers and set indices are
\* all >= 0, so -1 never collides with a value.
None == 0 - 1

VARIABLES bq, op, args, ret, raised, pre, inserted, extracted,
          sets, elements, n_false, n_false_start, cover, cover_index,
          uncovered, todo, pc, i, data, step

qvars == <<bq, op, args, ret, raised, pre, inserted, extracted>>
gvars == <<sets, elements, n_false, n_false_start, cover, cover_index,
           uncovered, todo, pc, i>>
mvars == <<data, step>>
vars == <<bq, op, args, ret, raised, pre, inserted, extracted,
          sets, elements, n_false, n_false_start, cover, cover_index,
          uncovered, todo, pc, i, data, step>>

\* variant: the comparison is the wrong way round
min_wrong(a, b) == IF a >= b THEN a ELSE b

min(a, b) == IF a <= b THEN a ELSE b
max(a, b) == IF a >= b THEN a ELSE b

SetMax(S) == CHOOSE m \in S : \A n \in S : n <= m
SetMin(S) == CHOOSE m \in S : \A n \in S : m <= n

----------------------------------------------------------------------------
\* BucketQueue

\* BucketQueue.__init__(C, L)
BucketQueue(C, L) ==
    [C |-> C, L |-> L, A |-> [k \in 0..(C - L) |-> {}],
     lowest |-> None, greatest |-> None]

priority_to_index(self, index) == index - self.L

\* the buckets after self.A[p].add(x)
bucket_add(A, p, x) == [A EXCEPT ![p] = @ \cup {x}]

\* variant: the element is added to bucket q before it is removed from p
move_element_add_first(A, x, p, q) == [bucket_add(A, q, x) EXCEPT ![p] = @ \ {x}]

\* the buckets after self.A[p].remove(x); self.A[q].add(x)
move_element(A, x, p, q) == bucket_add([A EXCEPT ![p] = @ \ {x}], q, x)

clear_bounds(self) == [self EXCEPT !.lowest = None, !.greatest = None]

\* while q >= self.lowest and len(self.A[q]) == 0: q -= 1
RECURSIVE scan_down(_, _)
scan_down(self, q) ==
    IF q >= self.lowest /\ self.A[q] = {} THEN scan_down(self, q - 1) ELSE q

\* variant: one step up instead of the loop
scan_up_once(self, q) == q + 1

\* while q < len(self.A) and len(self.A[q]) == 0: q += 1
RECURSIVE scan_up(_, _)
scan_up(self, q) ==
    IF q < (self.C - self.L + 1) /\ self.A[q] = {}
    THEN scan_up(self, q + 1) ELSE q

\* the two assertions of update_bounds_eager: the bounds are both None or
\* both present
bounds_assert_ok(self) == (self.lowest = None) <=> (self.greatest = None)

\* variant: the bounds are only extended, an emptied bucket is never rescanned
update_bounds_eager_norescan(self, p, q) ==
    IF self.lowest = None
    THEN [self EXCEPT !.lowest = p, !.greatest = p]
    ELSE [self EXCEPT !.lowest = min(p, self.lowest),
                      !.greatest = max(p, self.greatest)]

\* update_bounds_eager(p, q): an element was added to bucket p and, when q is
\* not None, one was removed from bucket q.
update_bounds_eager(self, p, q) ==
    LET ext == IF self.lowest = None
               THEN [self EXCEPT !.lowest = p, !.greatest = p]
               ELSE [self EXCEPT !.lowest = min(p, self.lowest),
                                 !.greatest = max(p, self.greatest)]
    IN  IF q = None \/ ext.A[q] # {} THEN ext
        ELSE IF q = ext.greatest
             THEN LET q2 == scan_down(ext, q)
                  IN  IF q2 < ext.lowest THEN clear_bounds(ext)
                      ELSE [ext EXCEPT !.greatest = q2]
        ELSE IF q = ext.lowest
             THEN LET q2 == scan_up(ext, q)
                  IN  IF q2 > ext.greatest THEN clear_bounds(ext)
                      ELSE [ext EXCEPT !.lowest = q2]
        ELSE ext

Outcome(self, r, e) == [bq |-> self, ret |-> r, raised |-> e]

\* insert(x, p)
insert(self, x, p) ==
    IF ~(self.L <= p /\ p <= self.C)
    THEN Outcome(self, None, "AssertionError")
    ELSE LET ix == priority_to_index(self, p)
             s1 == [self EXCEPT !.A = bucket_add(self.A, ix, x)]
         IN  IF ~bounds_assert_ok(s1)
             THEN Outcome(s1, None, "AssertionError")
             ELSE Outcome(update_bounds_eager(s1, ix, None), None, "")

\* variant: only the old priority is asserted; a new priority outside the
\* range fails on the bucket access, after the element has been removed
change_priority_unchecked_q(self, x, p, q) ==
    IF ~(self.L <= p /\ p <= self.C)
    THEN Outcome(self, None, "AssertionError")
    ELSE LET ip == priority_to_index(self, p)
             iq == priority_to_index(self, q)
         IN  IF x \notin self.A[ip]
             THEN Outcome(self, None, "KeyError")
             ELSE IF ~(self.L <= q /\ q <= self.C)
             THEN Outcome([self EXCEPT !.A[ip] = @ \ {x}], None, "IndexError")
             ELSE LET s1 == [self EXCEPT !.A = move_element(self.A, x, ip, iq)]
                  IN  Outcome(update_bounds_eager(s1, iq, ip), None, "")

\* variant: the element is added to bucket q before it is removed from p,
\* so that a missing element is found out after the add
change_priority_add_first(self, x, p, q) ==
    IF ~(self.L <= p /\ p <= self.C) \/ ~(self.L <= q /\ q <= self.C)
    THEN Outcome(self, None, "AssertionError")
    ELSE LET ip == priority_to_index(self, p)
             iq == priority_to_index(self, q)
         IN  IF x \notin self.A[ip]
             THEN Outcome([self EXCEPT !.A = bucket_add(self.A, iq, x)],
                          None, "KeyError")
             ELSE LET s1 == [self EXCEPT !.A = move_element(self.A, x, ip, iq)]
                  IN  Outcome(update_bounds_eager(s1, iq, ip), None, "")

\* change_priority(x, p, q)
change_priority(self, x, p, q) ==
    IF ~(self.L <= p /\ p <= self.C) \/ ~(self.L <= q /\ q <= self.C)
    THEN Outcome(self, None, "AssertionError")
    ELSE LET ip == priority_to_index(self, p)
             iq == priority_to_index(self, q)
         IN  IF x \notin self.A[ip]
             THEN Outcome(self, None, "KeyError")   \* set.remove(x)
             ELSE LET s1 == [self EXCEPT !.A = move_element(self.A, x, ip, iq)]
                  IN  IF ~bounds_assert_ok(s1)
                      THEN Outcome(s1, None, "AssertionError")
                      ELSE Outcome(update_bounds_eager(s1, iq, ip), None, "")

\* variant: the bounds are kept when the scan finds no non-empty bucket
find_lowest_noclear(self) ==
    IF self.lowest = None THEN self
    ELSE LET ne == {k \in self.lowest..self.greatest : self.A[k] # {}}
         IN  IF ne # {} THEN [self EXCEPT !.lowest = SetMin(ne)]
             ELSE self

\* find_lowest()
find_lowest(self) ==
    IF self.lowest = None THEN self
    ELSE LET ne == {k \in self.lowest..self.greatest : self.A[k] # {}}
         IN  IF ne # {} THEN [self EXCEPT !.lowest = SetMin(ne)]
             ELSE clear_bounds(self)

\* variant: the scan runs upward from the lower bound, as in find_lowest
find_highest_scan_up(self) ==
    IF self.greatest = None THEN self
    ELSE LET ne == {k \in self.lowest..self.greatest : self.A[k] # {}}
         IN  IF ne # {} THEN [self EXCEPT !.greatest = SetMin(ne)]
             ELSE clear_bounds(self)

\* find_highest()
find_highest(self) ==
    IF self.greatest = None THEN self
    ELSE LET ne == {k \in self.lowest..self.greatest : self.A[k] # {}}
         IN  IF ne # {} THEN [self EXCEPT !.greatest = SetMax(ne)]
             ELSE clear_bounds(self)

\* variant: the element is returned but left in the bucket
pop_peek(self, k) ==
    IF self.A[k] = {} THEN {Outcome(self, None, "KeyError")}
    ELSE {Outcome(self, x, "") : x \in self.A[k]}

\* self.A[k].pop(): any element of the bucket may be the one returned
pop(self, k) ==
    IF self.A[k] = {} THEN {Outcome(self, None, "KeyError")}
    ELSE {Outcome([self EXCEPT !.A[k] = @ \ {x}], x, "") : x \in self.A[k]}

\* extract_max(): the set of possible outcomes
extract_max(self) ==
    IF (self.greatest = None) /\ (self.lowest # None)
    THEN {Outcome(self, None, "AssertionError")}
    ELSE LET s1 == find_highest(self)
         IN  IF s1.greatest = None THEN {Outcome(s1, None, "")}
             ELSE pop(s1, s1.greatest)

\* extract_min(): the set of possible outcomes
extract_min(self) ==
    IF (self.lowest = None) /\ (self.greatest # None)
    THEN {Outcome(self, None, "AssertionError")}
    ELSE LET s1 == find_lowest(self)
         IN  IF s1.lowest = None THEN {Outcome(s1, None, "")}
             ELSE pop(s1, s1.lowest)

----------------------------------------------------------------------------
\* Derived quantities used by the properties

Buckets(self) == 0..(self.C - self.L)
NonEmpty(self) == {k \in Buckets(self) : self.A[k] # {}}
RECURSIVE SumCard(_, _)
SumCard(A, S) ==
    IF S = {} THEN 0
    ELSE LET k == CHOOSE k \in S : TRUE
         IN  Cardinality(A[k]) + SumCard(A, S \ {k})
Total(self) == SumCard(self.A, Buckets(self))

----------------------------------------------------------------------------
\* Specification of the queue: any sequence of calls on one queue

Ids == 1..NumIds
NoArgs == [x |-> None, p |-> None, q |-> None]

\* record the call and its outcome
Call(name, a, out) ==
    /\ pre' = bq
    /\ bq' = out.bq
    /\ op' = name
    /\ args' = a
    /\ ret' = out.ret
    /\ raised' = out.raised

\* main's list of (element, priority) pairs and the number of calls made
MIdle == data = <<>> /\ step = 0

GIdle ==
    /\ sets = <<>> /\ elements = <<>> /\ n_false = 0 /\ n_false_start = 0
    /\ cover = <<>> /\ cover_index = <<>> /\ uncovered = {} /\ todo = {}
    /\ pc = "queue" /\ i = 0

Init ==
    /\ bq = BucketQueue(DefaultL + MaxSpan, DefaultL)
    /\ pre = bq
    /\ op = "init" /\ args = NoArgs /\ ret = None /\ raised = ""
    /\ inserted = 0 /\ extracted = 0
    /\ GIdle /\ MIdle

\* priorities tried by the callers: the range and one value on either side
Prios == (bq.L - 1)..(bq.C + 1)

Insert ==
    /\ pc = "queue"
    /\ inserted < MaxInserts
    /\ \E x \in Ids, p \in Prios :
        LET out == insert(bq, x, p)
        IN  /\ Call("insert", [x |-> x, p |-> p, q |-> None], out)
            /\ inserted' = IF Total(out.bq) > Total(bq)
                           THEN inserted + 1 ELSE inserted
    /\ UNCHANGED <<extracted, gvars, mvars>>

ChangePriority ==
    /\ pc = "queue"
    /\ \E x \in Ids, p \in Prios, q \in Prios :
        Call("change_priority", [x |-> x, p |-> p, q |-> q],
             change_priority(bq, x, p, q))
    /\ UNCHANGED <<inserted, extracted, gvars, mvars>>

ExtractMax ==
    /\ pc = "queue"
    /\ \E out \in extract_max(bq) :
        /\ Call("extract_max", NoArgs, out)
        /\ extracted' = IF out.ret # None THEN extracted + 1 ELSE extracted
    /\ UNCHANGED <<inserted, gvars, mvars>>

ExtractMin ==
    /\ pc = "queue"
    /\ \E out \in extract_min(bq) :
        /\ Call("extract_min", NoArgs, out)
        /\ extracted' = IF out.ret # None THEN extracted + 1 ELSE extracted
    /\ UNCHANGED <<inserted, gvars, mvars>>

Next == Insert \/ ChangePriority \/ ExtractMax \/ ExtractMin

Spec == Init /\ [][Next]_vars

\* Only insert and change_priority are called
NextIC == Insert \/ ChangePriority

SpecIC == Init /\ [][NextIC]_vars

----------------------------------------------------------------------------
\* The demonstration of main(): a queue BucketQueue(50), the elements 15, 39
\* and 30 inserted in this order, then the queue emptied by extract_max.
\* main inserts them with the priorities 25, 40 and 15; the runs tried here
\* give each element any of these three priorities.

MainC == 50
MainPrios == {15, 25, 40}
MainExtracts == 4
MainData(p1, p2, p3) ==
    <<[x |-> 15, p |-> p1], [x |-> 39, p |-> p2], [x |-> 30, p |-> p3]>>

MainInit ==
    /\ bq = BucketQueue(MainC, DefaultL)
    /\ pre = bq
    /\ op = "init" /\ args = NoArgs /\ ret = None /\ raised = ""
    /\ inserted = 0 /\ extracted = 0
    /\ sets = <<>> /\ elements = <<>> /\ n_false = 0 /\ n_false_start = 0
    /\ cover = <<>> /\ cover_index = <<>> /\ uncovered = {} /\ todo = {}
    /\ pc = "main" /\ i = 0
    /\ \E p1 \in MainPrios, p2 \in MainPrios, p3 \in MainPrios :
          data = MainData(p1, p2, p3)
    /\ step = 0

\* for x, p in data: bq.insert(x, p)
MainInsert ==
    /\ pc = "main" /\ step < Len(data)
    /\ LET d == data[step + 1]
           out == insert(bq, d.x, d.p)
       IN  /\ Call("insert", [x |-> d.x, p |-> d.p, q |-> None], out)
           /\ inserted' = IF Total(out.bq) > Total(bq)
                          THEN inserted + 1 ELSE inserted
    /\ step' = step + 1
    /\ UNCHANGED <<extracted, gvars, data>>

\* bq.extract_max(), once more than there are elements
MainExtractMax ==
    /\ pc = "main" /\ step >= Len(data) /\ step < Len(data) + MainExtracts
    /\ \E out \in extract_max(bq) :
        /\ Call("extract_max", NoArgs, out)
        /\ extracted' = IF out.ret # None THEN extracted + 1 ELSE extracted
    /\ step' = step + 1
    /\ UNCHANGED <<inserted, gvars, data>>

MainNext == MainInsert \/ MainExtractMax

MainSpec == MainInit /\ [][MainNext]_vars

----------------------------------------------------------------------------
\* Properties of the queue

InRange(self, p) == self.L <= p /\ p <= self.C
Returned == raised = "" /\ ret # None
IsExtract == op \in {"extract_max", "extract_min"}
\* the call was change_priority(x, p, q) with x in bucket p, both in range
ValidChange ==
    /\ op = "change_priority"
    /\ InRange(pre, args.p) /\ InRange(pre, args.q)
    /\ args.x \in pre.A[priority_to_index(pre, args.p)]
\* the buckets of pre with x taken out of bucket k
Without(self, k, x) == [self.A EXCEPT ![k] = @ \ {x}]

\* C1: extract_max removes and returns an element of the highest non-empty
\* bucket as it was when the call was made, extract_min one of the lowest
\* non-empty bucket, whatever the cached bounds were.
C1_ExtractFromExtreme ==
    /\ (op = "extract_max" /\ NonEmpty(pre) # {}) =>
          /\ Returned
          /\ ret \in pre.A[SetMax(NonEmpty(pre))]
          /\ bq.A = Without(pre, SetMax(NonEmpty(pre)), ret)
    /\ (op = "extract_min" /\ NonEmpty(pre) # {}) =>
          /\ Returned
          /\ ret \in pre.A[SetMin(NonEmpty(pre))]
          /\ bq.A = Without(pre, SetMin(NonEmpty(pre)), ret)

\* an extract_max that returned an element although the cached upper bound
\* named an empty bucket and a lower bucket held the maximum
C1_Witness ==
    /\ op = "extract_max" /\ Returned
    /\ pre.greatest # None /\ pre.A[pre.greatest] = {}
    /\ SetMax(NonEmpty(pre)) < pre.greatest

\* C2: after inserts and change_priority calls only, present bounds name
\* non-empty buckets and every bucket outside them is empty.
C2_BoundInvariant ==
    bq.lowest # None =>
        /\ bq.greatest # None
        /\ bq.A[bq.lowest] # {}
        /\ bq.A[bq.greatest] # {}
        /\ \A k \in Buckets(bq) :
              (k < bq.lowest \/ k > bq.greatest) => bq.A[k] = {}

\* a change_priority that emptied the bucket of the upper bound and moved the
\* element below it, so that the bound had to be found again
C2_Witness ==
    /\ ValidChange /\ raised = ""
    /\ priority_to_index(pre, args.p) = pre.greatest
    /\ pre.A[pre.greatest] = {args.x}
    /\ args.q < args.p
    /\ bq.greatest # None /\ bq.greatest < pre.greatest
    /\ bq.greatest > priority_to_index(pre, args.q)

\* C3: an insert or change_priority with a priority outside [L, C] fails
\* with the assertion error and changes neither buckets nor bounds.
C3_InvalidPriority ==
    /\ (op = "insert" /\ ~InRange(pre, args.p)) =>
          (raised = "AssertionError" /\ bq = pre)
    /\ (op = "change_priority"
        /\ (~InRange(pre, args.p) \/ ~InRange(pre, args.q))) =>
          (raised = "AssertionError" /\ bq = pre)

\* a change_priority of an element that is in its stated bucket to a
\* priority above C
C3_Witness ==
    /\ op = "change_priority"
    /\ InRange(pre, args.p) /\ args.q > pre.C
    /\ args.x \in pre.A[priority_to_index(pre, args.p)]
    /\ raised = "AssertionError"

\* C4: extract_min and extract_max on a queue without elements return None
\* without raising, and both bounds are None afterwards.
C4_EmptyExtract ==
    (IsExtract /\ NonEmpty(pre) = {}) =>
        /\ ret = None /\ raised = ""
        /\ bq.lowest = None /\ bq.greatest = None

\* an extract_min on a queue that earlier operations emptied, the cached
\* bounds still being present
C4_Witness ==
    /\ op = "extract_min" /\ NonEmpty(pre) = {}
    /\ pre.lowest # None /\ pre.greatest # None
    /\ ret = None /\ bq.lowest = None

\* C5: the number of elements held in the buckets is the number of inserts
\* that added an element minus the number of extractions that returned one
\* (change_priority leaves the total alone).
C5_Conservation == Total(bq) = inserted - extracted

\* C6: change_priority(x, p, p), x being in bucket p, changes neither the
\* buckets nor the bounds.
C6_ChangeToSame ==
    (ValidChange /\ args.p = args.q) => (raised = "" /\ bq = pre)

\* such a call on the only element of the bucket that is the lower bound
C6_Witness ==
    /\ ValidChange /\ args.p = args.q /\ raised = ""
    /\ pre.A[priority_to_index(pre, args.p)] = {args.x}
    /\ pre.lowest = priority_to_index(pre, args.p)
    /\ pre.greatest > pre.lowest

----------------------------------------------------------------------------
\* set_cover_greedy(sets, elements)
\*
\* sets is the list of (set, priority) pairs, indexed from 0; elements is
\* the dict from each target element to its covered flag.  pc is the
\* position in the function: "insert" (the loop that fills the queue),
\* "extract" (top of a round of the while loop), "update" (the loop over the
\* remaining sets), "done" (returned after the while condition failed),
\* "partial" (returned after printing that the sets do not cover the
\* elements) and "raised" (left by an exception).

Universe == 1..MaxElem
SetIndices == 0..(NumSets - 1)
Target == DOMAIN elements
HasReturned == pc \in {"done", "partial"}

\* the count of lines 68-71: members of s that are target elements
initial_priority(s, el) == Cardinality(s \cap DOMAIN el)

\* the members of s that are target elements not yet covered
\* (not elements.get(ele, True))
live_members(s, el) == {e \in s \cap DOMAIN el : ~el[e]}

\* variant: every target element of the set is counted, covered or not
new_priority_all(s, el) == Cardinality(s \cap DOMAIN el)

\* the count of lines 107-111
new_priority(s, el) == Cardinality(live_members(s, el))

\* variant: the new priority is not written back
store_priority_skip(ss, k, p) == ss

\* sets[k] = (s, p)
store_priority(ss, k, p) == [ss EXCEPT ![k].p = p]

\* variant: the check of the round's progress is left out
stalled_never(nf, nf_start) == FALSE

\* variant: the round is taken as stalled when it did cover something
stalled_inverted(nf, nf_start) == nf # nf_start

\* n_false == n_false_start
stalled(nf, nf_start) == nf = nf_start

\* sets[set_added_index] == 0 compares a tuple with a number
entry_is_zero(entry) == FALSE

\* the position after a round or after the initialisation: the while test
loop_head(nf) == IF nf > 0 THEN "extract" ELSE "done"

\* The inputs: NumSets subsets of the universe, and a target.  The code
\* treats element identifiers alike, so the targets tried are 1..t: the
\* elements above t are the ones outside the target.
GInit ==
    /\ \E target \in {1..t : t \in 0..MaxElem} :
          /\ elements = [e \in target |-> FALSE]
          /\ n_false = Cardinality(target)
          /\ bq = BucketQueue(Cardinality(target), 0)
    /\ \E ss \in [SetIndices -> SUBSET Universe] :
          sets = [k \in SetIndices |-> [s |-> ss[k], p |-> None]]
    /\ cover = <<>> /\ cover_index = <<>>
    /\ uncovered = {} /\ todo = {} /\ n_false_start = 0
    /\ pc = "insert" /\ i = 0
    /\ pre = bq
    /\ op = "init" /\ args = NoArgs /\ ret = None /\ raised = ""
    /\ inserted = 0 /\ extracted = 0
    /\ MIdle

\* lines 66-75: one pass of the loop that fills the queue
InsertSet ==
    /\ pc = "insert" /\ i < NumSets
    /\ LET priority == initial_priority(sets[i].s, elements)
       IN  IF priority > 0
           THEN LET out == insert(bq, i, priority)
                IN  /\ Call("insert", [x |-> i, p |-> priority, q |-> None], out)
                    /\ IF out.raised # ""
                       THEN pc' = "raised" /\ UNCHANGED sets
                       ELSE pc' = pc /\ sets' = store_priority(sets, i, priority)
           ELSE UNCHANGED <<bq, op, args, ret, raised, pre, sets, pc>>
    /\ i' = i + 1
    /\ UNCHANGED <<mvars, inserted, extracted, elements, n_false, n_false_start,
                   cover, cover_index, uncovered, todo>>

\* line 78 and the first test of the while condition
StartLoop ==
    /\ pc = "insert" /\ i = NumSets
    /\ uncovered' = {k \in SetIndices : sets[k].p # None /\ sets[k].p # 0}
    /\ pc' = loop_head(n_false)
    /\ UNCHANGED <<mvars, qvars, sets, elements, n_false, n_false_start, cover,
                   cover_index, todo, i>>

\* lines 82-102: extract the maximum and add it to the cover
Select ==
    /\ pc = "extract"
    /\ n_false_start' = n_false
    /\ \E out \in extract_max(bq) :
        /\ Call("extract_max", NoArgs, out)
        /\ IF out.raised # ""
           THEN /\ pc' = "raised"
                /\ UNCHANGED <<elements, n_false, cover, cover_index,
                               uncovered, todo>>
           ELSE IF out.ret = None \/ entry_is_zero(sets[out.ret])
           THEN /\ pc' = "partial"
                /\ UNCHANGED <<elements, n_false, cover, cover_index,
                               uncovered, todo>>
           ELSE LET set_added == sets[out.ret].s
                    newly == live_members(set_added, elements)
                IN  /\ elements' = [e \in DOMAIN elements |->
                                      elements[e] \/ e \in newly]
                    /\ n_false' = n_false - Cardinality(newly)
                    /\ cover' = Append(cover, set_added)
                    /\ cover_index' = Append(cover_index, out.ret)
                    /\ IF out.ret \in uncovered
                       THEN /\ uncovered' = uncovered \ {out.ret}
                            /\ todo' = uncovered \ {out.ret}
                            /\ pc' = "update"
                       ELSE /\ pc' = "raised"    \* uncovered.remove
                            /\ UNCHANGED <<uncovered, todo>>
    /\ UNCHANGED <<mvars, inserted, extracted, sets, i>>

\* lines 105-115: one pass of the loop over the remaining sets, which are
\* visited in the order of a set's iteration
Reprioritize ==
    /\ pc = "update" /\ todo # {}
    /\ \E k \in todo :
        LET np == new_priority(sets[k].s, elements)
            out == change_priority(bq, k, sets[k].p, np)
        IN  /\ Call("change_priority", [x |-> k, p |-> sets[k].p, q |-> np], out)
            /\ IF out.raised # ""
               THEN pc' = "raised" /\ UNCHANGED <<sets, todo>>
               ELSE /\ pc' = pc
                    /\ sets' = store_priority(sets, k, np)
                    /\ todo' = todo \ {k}
    /\ UNCHANGED <<mvars, inserted, extracted, elements, n_false, n_false_start,
                   cover, cover_index, uncovered, i>>

\* lines 117-120 and the next test of the while condition
CheckProgress ==
    /\ pc = "update" /\ todo = {}
    /\ pc' = IF stalled(n_false, n_false_start) THEN "partial"
             ELSE loop_head(n_false)
    /\ UNCHANGED <<mvars, qvars, sets, elements, n_false, n_false_start, cover,
                   cover_index, uncovered, todo, i>>

GNext == InsertSet \/ StartLoop \/ Select \/ Reprioritize \/ CheckProgress

GreedySpec == GInit /\ [][GNext]_vars

\* The runs on inputs without elements outside the target: the target is
\* 1 .. MaxElem + 1 and the sets are any of its subsets.
FullTargetInit ==
    /\ \E target \in {1..(MaxElem + 1)} :
          /\ elements = [e \in target |-> FALSE]
          /\ n_false = Cardinality(target)
          /\ bq = BucketQueue(Cardinality(target), 0)
          /\ \E ss \in [SetIndices -> SUBSET target] :
                sets = [k \in SetIndices |-> [s |-> ss[k], p |-> None]]
    /\ cover = <<>> /\ cover_index = <<>>
    /\ uncovered = {} /\ todo = {} /\ n_false_start = 0
    /\ pc = "insert" /\ i = 0
    /\ pre = bq
    /\ op = "init" /\ args = NoArgs /\ ret = None /\ raised = ""
    /\ inserted = 0 /\ extracted = 0
    /\ MIdle

FullTargetSpec == FullTargetInit /\ [][GNext]_vars

----------------------------------------------------------------------------
\* Properties of set_cover_greedy

UnionOf(seq) == UNION {seq[k] : k \in 1..Len(seq)}
InputUnion == UNION {sets[k].s : k \in SetIndices}
Feasible == Target \subseteq InputUnion

\* C7: when the function returns, every target element that is in some
\* input set is in some set of the cover.
C7_CoverableCovered ==
    HasReturned => (Target \cap InputUnion) \subseteq UnionOf(cover)

\* a return with the partial cover message: one target element is in no
\* input set, another was covered
C7_Witness ==
    /\ pc = "partial"
    /\ Target \ InputUnion # {}
    /\ Target \cap UnionOf(cover) # {}

\* C8 as stated: on a feasible input the union of the cover is the target.
C8_UnionEqualsTarget ==
    (HasReturned /\ Feasible) => UnionOf(cover) = Target

\* C8: on a feasible input the cover contains every target element: its
\* union, restricted to the target, is the target.
C8_UnionCoversTarget ==
    (HasReturned /\ Feasible) => UnionOf(cover) \cap Target = Target

\* a return on a feasible input, the cover holding an element outside the
\* target
C8_Witness ==
    /\ HasReturned /\ Feasible
    /\ Len(cover) >= 1
    /\ UnionOf(cover) \ Target # {}

\* The most steps a round of the while loop takes: the extraction, one
\* change of priority per remaining set, the check of the progress.
RoundSteps == NumSets + 2

\* A bound on the steps still to come, from the number of uncovered target
\* elements: at the top of a round there are at most n_false + 1 rounds
\* left; within a round, the rounds left after it are at most the number
\* of elements uncovered when it began.
StepsLeft ==
    CASE pc = "insert" -> (Cardinality(Target) + 2) * RoundSteps + (NumSets - i)
      [] pc = "extract" -> (n_false + 1) * RoundSteps
      [] pc = "update" -> n_false_start * RoundSteps + Cardinality(todo) + 1
      [] OTHER -> 0

\* C9: the while loop terminates.  Every step of the function lowers
\* StepsLeft, which is never negative: a round that is followed by another
\* round has covered at least one more target element.  The only states
\* without a next step are those where the function has returned, with the
\* target covered or with the partial cover message.
C9_Terminates ==
    /\ [][StepsLeft' < StepsLeft /\ StepsLeft' >= 0]_vars
    /\ [][(pc = "update" /\ pc' = "extract") => n_false' < n_false_start]_vars
    /\ [](HasReturned \/ ENABLED GNext)
    /\ [](pc = "done" => n_false = 0)

\* a second round begins
C9_Witness ==
    /\ pc = "extract" /\ Len(cover) >= 1 /\ n_false > 0

\* C10: no call on the queue raises and the function is never left by an
\* exception: the priorities passed are within [0, |target|], the index
\* given to change_priority is in the bucket of its stated priority, the
\* extracted index is in uncovered.
C10_NoRaise ==
    /\ pc # "raised" /\ raised = ""
    /\ op = "insert" => (0 <= args.p /\ args.p <= Cardinality(Target))
    /\ op = "change_priority" =>
          /\ 0 <= args.p /\ args.p <= Cardinality(Target)
          /\ 0 <= args.q /\ args.q <= Cardinality(Target)
          /\ args.x \in pre.A[args.p]
    /\ (op = "extract_max" /\ ret # None) =>
          (ret \in SetIndices /\ sets[ret].p # None)

\* on an input that cannot be covered, the priority of a remaining set is
\* lowered after a selection
C10_Witness ==
    /\ op = "change_priority" /\ raised = ""
    /\ Len(cover) >= 1
    /\ args.q < args.p
    /\ ~Feasible

\* n! and the harmonic number H(n) = HNum(n) / HDen(n)
RECURSIVE Factorial(_)
Factorial(n) == IF n <= 0 THEN 1 ELSE n * Factorial(n - 1)
RECURSIVE SumOver(_, _)
SumOver(n, k) == IF k <= 0 THEN 0 ELSE (Factorial(n) \div k) + SumOver(n, k - 1)
HNum(n) == SumOver(n, n)
HDen(n) == Factorial(n)

\* the size of a smallest collection of input sets whose union holds the
\* target (on a feasible input)
Covers(S) == Target \subseteq UNION {sets[k].s : k \in S}
MinCoverSize ==
    SetMin({Cardinality(S) : S \in {T \in SUBSET SetIndices : Covers(T)}})

\* C11: on a feasible input the returned cover has at most H(n) times as
\* many sets as a smallest cover, n being the number of target elements:
\* Len(cover) <= (HNum(n) / HDen(n)) * MinCoverSize.
C11_HarmonicBound ==
    (HasReturned /\ Feasible) =>
        Len(cover) * HDen(Cardinality(Target))
            <= HNum(Cardinality(Target)) * MinCoverSize

\* a return on a feasible input with two target elements or more that one
\* set covers alone, another set holding only a part of the target
C11_Witness ==
    /\ pc = "done" /\ Feasible
    /\ Cardinality(Target) >= 2
    /\ MinCoverSize = 1 /\ Len(cover) = 1
    /\ \E k \in SetIndices :
          sets[k].s \cap Target # {} /\ sets[k].s \cap Target # Target

\* C12: cover and cover_index have the same length, cover[k] is the input
\* set at position cover_index[k], no index is in cover_index twice, and
\* a step changes the two lists only by appending to them.
C12_CoverIndices ==
    /\ [](/\ Len(cover) = Len(cover_index)
          /\ \A k \in 1..Len(cover_index) :
                /\ cover_index[k] \in SetIndices
                /\ cover[k] = sets[cover_index[k]].s
          /\ \A k, j \in 1..Len(cover_index) :
                cover_index[k] = cover_index[j] => k = j)
    /\ [][/\ \/ cover' = cover
             \/ \E x \in SUBSET Universe : cover' = Append(cover, x)
          /\ \/ cover_index' = cover_index
             \/ \E x \in SetIndices : cover_index' = Append(cover_index, x)]_vars

\* two sets have been selected
C12_Witness ==
    /\ Len(cover_index) = 2 /\ Len(cover) = 2
    /\ cover_index[1] # cover_index[2]

\* the run of main's own data
ScenarioA == pc = "main" /\ data = MainData(25, 40, 15)

\* C13 as stated: after the three inserts the lower bound is 25 and the
\* upper bound 40; the extract_max calls return 39, 30, 15 and then None,
\* the bounds being None at the end.
C13_ScenarioAsStated ==
    ScenarioA =>
        /\ step = 3 => (bq.lowest = 25 /\ bq.greatest = 40)
        /\ step = 4 => ret = 39
        /\ step = 5 => ret = 30
        /\ step = 6 => ret = 15
        /\ step = 7 => (ret = None /\ bq.lowest = None /\ bq.greatest = None)

\* C13: after the three inserts the cached bounds name the bucket of
\* priority 15 (the lowest) and the bucket of priority 40 (the highest);
\* the extract_max calls return 39, 15, 30 and then None, the bounds being
\* None at the end.
C13_ScenarioA ==
    ScenarioA =>
        /\ step = 3 => /\ bq.lowest = priority_to_index(bq, 15)
                       /\ bq.greatest = priority_to_index(bq, 40)
        /\ step = 4 => ret = 39
        /\ step = 5 => ret = 15
        /\ step = 6 => ret = 30
        /\ step = 7 => (ret = None /\ raised = ""
                        /\ bq.lowest = None /\ bq.greatest = None)

\* the end of the run of main's data
C13_Witness ==
    /\ ScenarioA /\ step = 7 /\ op = "extract_max"
    /\ extracted = 3 /\ NonEmpty(bq) = {}

\* the bounds are None exactly when the buckets are all empty and, when
\* present, name non-empty buckets
Exact(self) ==
    /\ (self.lowest = None) <=> (NonEmpty(self) = {})
    /\ (self.greatest = None) <=> (NonEmpty(self) = {})
    /\ self.lowest # None => self.A[self.lowest] # {}
    /\ self.greatest # None => self.A[self.greatest] # {}

\* C14 as stated: in every reachable state the bounds are None exactly when
\* all buckets are empty, and present bounds name non-empty buckets.
C14_BoundsExact == Exact(bq)

\* C14: when the bounds are None all buckets are empty; insert and
\* change_priority keep exact bounds exact; an extract leaves the bounds as
\* its scan set them: the bound still names the bucket the element was taken
\* from, also when that was the last element of the bucket or of the queue.
C14_BoundsLazy ==
    /\ (bq.lowest = None \/ bq.greatest = None) =>
          (bq.lowest = None /\ bq.greatest = None /\ NonEmpty(bq) = {})
    /\ (op \in {"insert", "change_priority"} /\ raised = "" /\ Exact(pre)) =>
          Exact(bq)
    /\ (op = "extract_max" /\ Returned) =>
          (bq.lowest # None /\ bq.greatest = SetMax(NonEmpty(pre)))
    /\ (op = "extract_min" /\ Returned) =>
          (bq.greatest # None /\ bq.lowest = SetMin(NonEmpty(pre)))

\* an extract has removed the last element and the bounds are still present
C14_Witness ==
    /\ IsExtract /\ Returned
    /\ NonEmpty(bq) = {}
    /\ bq.lowest # None /\ bq.greatest # None

\* C15: no stored element is outside the cached bounds: present bounds
\* enclose every non-empty bucket, and with bounds None every bucket is
\* empty.
C15_BoundsEnclose ==
    /\ bq.lowest # None =>
          /\ bq.greatest # None
          /\ \A k \in NonEmpty(bq) : bq.lowest <= k /\ k <= bq.greatest
    /\ bq.lowest = None => NonEmpty(bq) = {}

\* an element is moved below the lower bound of a queue whose lower bound
\* named a bucket that an extract had emptied
C15_Witness ==
    /\ ValidChange /\ raised = ""
    /\ pre.lowest # None /\ pre.A[pre.lowest] = {}
    /\ priority_to_index(pre, args.q) < pre.lowest
    /\ NonEmpty(bq) # {}

\* C16: the bounds are both None or both present, and present bounds are
\* priorities: L <= lowest <= greatest <= C.
C16_BoundsArePriorities ==
    /\ (bq.lowest = None) <=> (bq.greatest = None)
    /\ bq.lowest # None =>
          (bq.L <= bq.lowest /\ bq.lowest <= bq.greatest /\ bq.greatest <= bq.C)

\* C17: each identifier is in at most one bucket.
C17_OneBucketPerId ==
    \A x \in Ids : Cardinality({k \in Buckets(bq) : x \in bq.A[k]}) <= 1

\* the indices selected so far
Selected == {cover_index[k] : k \in 1..Len(cover_index)}
\* the number of target elements of set k that are not covered
LiveCount(k) == Cardinality(live_members(sets[k].s, elements))

\* C18: at the top of every round, each set that was inserted and is not
\* yet selected has as its recorded priority the number of its target
\* elements still uncovered, and its index is in the bucket of that
\* priority and in no other.
C18_PrioritiesLive ==
    pc = "extract" =>
        \A k \in SetIndices :
            (sets[k].p # None /\ k \notin Selected) =>
                /\ sets[k].p = LiveCount(k)
                /\ \A b \in Buckets(bq) : (k \in bq.A[b]) <=> (b = sets[k].p)

\* the top of a later round, a remaining set having lost all its priority
C18_Witness ==
    /\ pc = "extract" /\ Len(cover) >= 1
    /\ \E k \in SetIndices :
          /\ sets[k].p = 0 /\ k \notin Selected
          /\ initial_priority(sets[k].s, elements) >= 1

\* C19: the set that a round selects has, when it is selected, at least as
\* many uncovered target elements as every other set not yet selected.
C19_GreedyChoice ==
    [][(pc = "extract" /\ pc' = "update") =>
          \A k \in SetIndices \ Selected :
              LiveCount(k) <= Cardinality(live_members(sets[ret'].s, elements))]_vars

\* a set has just been selected while another set, with fewer uncovered
\* target elements but at least one, stays in the queue
C19_Witness ==
    /\ pc = "update" /\ op = "extract_max" /\ todo = uncovered
    /\ \E k \in uncovered :
          sets[k].p >= 1 /\ sets[k].p < n_false_start - n_false

\* C20: a set that is appended to the cover has covered at least one target
\* element that was uncovered: after a selection fewer elements are
\* uncovered than at the top of the round.
C20_EverySetCovers == pc = "update" => n_false < n_false_start

\* the number of target elements that the k-th set of the cover was the
\* first to cover
RECURSIVE CoveredBefore(_)
CoveredBefore(k) == IF k <= 1 THEN {} ELSE CoveredBefore(k - 1) \cup cover[k - 1]
Gain(k) == Cardinality((cover[k] \cap Target) \ CoveredBefore(k))

\* C21: the cover is in the order of the marginal coverage: each selected
\* set newly covered at least as many target elements as the set selected
\* after it.
C21_GainsDecrease ==
    \A k \in 1..(Len(cover) - 1) : Gain(k) >= Gain(k + 1)

\* a return with two sets or more selected, the first having covered more
\* new elements than the second, which covered some
C21_Witness ==
    /\ HasReturned /\ Len(cover) >= 2
    /\ Gain(1) > Gain(2) /\ Gain(2) >= 1

\* C22: change_priority(x, p, q) with both priorities in [L, C] and x not in
\* bucket p fails (the KeyError of the bucket's remove) and changes neither
\* the buckets nor the bounds.
C22_MissingElement ==
    (/\ op = "change_priority"
     /\ InRange(pre, args.p) /\ InRange(pre, args.q)
     /\ args.x \notin pre.A[priority_to_index(pre, args.p)]) =>
        (raised = "KeyError" /\ bq = pre)

\* such a call for an element that is in another bucket, towards a bucket
\* above the upper bound
C22_Witness ==
    /\ op = "change_priority" /\ raised = "KeyError"
    /\ InRange(pre, args.p) /\ InRange(pre, args.q)
    /\ \E k \in Buckets(pre) : args.x \in pre.A[k]
    /\ pre.greatest # None
    /\ priority_to_index(pre, args.q) > pre.greatest

====
